---- MODULE Spec2Model ----
(***************************************************************************)
(* Index metadata registry (views/metadata.rs) and finite float field      *)
(* codec (encoding/float.rs).                                              *)
(*                                                                         *)
(* The specifications of this module:                                      *)
(*   Spec       the indexes pool and the index state handles over one      *)
(*              key-value view (SpecTypes: over all nine index types;      *)
(*              SpecKeys: over names that hold a zero byte);               *)
(*   SpecSteps  index_metadata taken one storage access at a time by       *)
(*              callers sharing the view (SpecSerial: one call at a time); *)
(*   SpecBytes  IndexMetadata::from_bytes applied to byte sequences;       *)
(*   SpecRound  to_bytes followed by from_bytes on records;                *)
(*   SpecAttr   u64 attributes written to and read from one buffer;        *)
(*   SpecCheck  <F32/F64 as Field>::check applied to buffers and offsets;  *)
(*   SpecJson   <F32/F64 as ExonumJson>::deserialize_field on JSON values; *)
(*   SpecWrap   the constructors of F32 and F64 applied to float values.   *)
(***************************************************************************)
EXTENDS Integers, Sequences, FiniteSets, TLC

VARIABLES
    store,      \* the pool's view: key (byte sequence) -> stored bytes
    slots,      \* what callers hold: (IndexAddress, IndexState) pairs
    hist,       \* history of the run: creations, first resolutions, sets
    last,       \* how the last call on the pool ended: "none", "ok", or the
                \* reason it aborted ("decode", "assert_eq")
    fbInput,    \* from_bytes: the byte sequence handed in
    fbV,        \* from_bytes: the state type V ("unit" or "u64")
    fbResult,   \* from_bytes: what the call produced
    ckArgs,     \* check: float kind, build, buffer, from, to, latest_segment
    ckResult,   \* check: what the call produced
    jsArgs,     \* deserialize_field: float kind, JSON value, buffer, from, to
    jsResult,   \* deserialize_field: what the call produced, and the buffer
    wrArgs,     \* F32/F64 constructors: float kind and the value handed in
    wrResult,   \* F32/F64 constructors: what try_from, new and get produced
    rtArgs,     \* round trip: the record serialized
    rtResult,   \* round trip: its bytes and what from_bytes made of them
    atArgs,     \* attribute stream: the u64 values to write
    atResult,   \* attribute stream: the buffer written and the values read
    callers     \* stepwise index_metadata: each caller's position and locals

vars == <<store, slots, hist, last, fbInput, fbV, fbResult, ckArgs, ckResult,
          jsArgs, jsResult, wrArgs, wrResult, rtArgs, rtResult, atArgs,
          atResult, callers>>

poolVars == <<store, slots, hist, last>>
bytesVars == <<fbInput, fbV, fbResult>>
checkVars == <<ckArgs, ckResult>>
jsonVars == <<jsArgs, jsResult>>
wrapVars == <<wrArgs, wrResult>>
roundVars == <<rtArgs, rtResult>>
attrVars == <<atArgs, atResult>>
stepVars == <<callers>>

(***************************************************************************)
(* Little-endian integers (byteorder::LittleEndian).                       *)
(***************************************************************************)
RECURSIVE LEBytes(_, _)
LEBytes(n, width) ==
    IF width = 0 THEN <<>> ELSE <<n % 256>> \o LEBytes(n \div 256, width - 1)

RECURSIVE LEValue(_)
LEValue(b) ==
    IF b = <<>> THEN 0 ELSE Head(b) + 256 * LEValue(Tail(b))

Take(b, n) == SubSeq(b, 1, n)
DropBytes(b, n) == SubSeq(b, n + 1, Len(b))

(***************************************************************************)
(* IndexType and its u32 tags.                                             *)
(***************************************************************************)
IndexTypes ==
    {"Map", "List", "Entry", "ValueSet", "KeySet", "SparseList",
     "ProofList", "ProofMap", "Unknown"}

TypeTag(t) ==
    CASE t = "Map" -> 1
      [] t = "List" -> 2
      [] t = "Entry" -> 3
      [] t = "ValueSet" -> 4
      [] t = "KeySet" -> 5
      [] t = "SparseList" -> 6
      [] t = "ProofList" -> 7
      [] t = "ProofMap" -> 8
      [] t = "Unknown" -> 255

\* IndexType::from_u32 (derive Primitive): the set of types carrying the tag,
\* empty when the tag names no variant.
TypeFromU32(n) == {t \in IndexTypes : TypeTag(t) = n}

(***************************************************************************)
(* BinaryAttribute for () and for u64.  A state value is tagged with its   *)
(* Rust type: [ty |-> "unit", val |-> 0] is (), [ty |-> "u64", val |-> n]. *)
(***************************************************************************)
StateTypes == {"unit", "u64"}
UnitState == [ty |-> "unit", val |-> 0]
U64State(n) == [ty |-> "u64", val |-> n]

DefaultState(V) == IF V = "unit" THEN UnitState ELSE U64State(0)

AttrSize(s) == IF s.ty = "unit" THEN 0 ELSE 8

\* A u64 written as four bytes (mutant of AttrWrite).
AttrWriteNarrow(s) == IF s.ty = "unit" THEN <<>> ELSE LEBytes(s.val, 4)

AttrWrite(s) == IF s.ty = "unit" THEN <<>> ELSE LEBytes(s.val, 8)

\* V::read on a reader holding `b`: () reads nothing; u64 unwraps
\* read_u64, which fails on fewer than 8 bytes.
AttrRead(V, b) ==
    IF V = "unit" THEN [kind |-> "ok", state |-> UnitState]
    ELSE IF Len(b) < 8 THEN [kind |-> "panic", state |-> UnitState]
    ELSE [kind |-> "ok", state |-> U64State(LEValue(Take(b, 8)))]

\* What V::read leaves in the reader: read_u64 consumes 8 bytes, () none.
AttrReadRest(V, b) == IF V = "unit" THEN b ELSE DropBytes(b, 8)

\* value.write(&mut buffer) for each value in turn, on a Vec that grows.
RECURSIVE StreamWrite(_, _)
StreamWrite(buffer, values) ==
    IF values = <<>> THEN buffer
    ELSE StreamWrite(buffer \o AttrWrite(U64State(Head(values))), Tail(values))

\* k times u64::read(&mut reader) on one reader; a read that fails ends the
\* stream with the values read so far and "panic".
RECURSIVE StreamRead(_, _, _)
StreamRead(reader, k, got) ==
    IF k = 0 THEN [kind |-> "ok", values |-> got]
    ELSE LET r == AttrRead("u64", reader)
         IN  IF r.kind = "panic" THEN [kind |-> "panic", values |-> got]
             ELSE StreamRead(AttrReadRest("u64", reader), k - 1,
                             Append(got, r.state.val))

(***************************************************************************)
(* IndexMetadata and its BinaryValue implementation.                       *)
(***************************************************************************)
Metadata(id, t, s) == [identifier |-> id, index_type |-> t, state |-> s]

NoMetadata == Metadata(0, "Unknown", UnitState)

\* A to_bytes that leaves out the state_len field (mutant of ToBytes).
ToBytesNoStateLen(m) ==
    LEBytes(m.identifier, 8) \o LEBytes(TypeTag(m.index_type), 4)
        \o AttrWrite(m.state)

ToBytes(m) ==
    LEBytes(m.identifier, 8) \o LEBytes(TypeTag(m.index_type), 4)
        \o LEBytes(AttrSize(m.state), 4) \o AttrWrite(m.state)

FbOk(m) == [kind |-> "ok", error |-> "", value |-> m]
FbErr(e) == [kind |-> "err", error |-> e, value |-> NoMetadata]
FbPanic == [kind |-> "panic", error |-> "", value |-> NoMetadata]

\* from_bytes, statement by statement: three `?` reads, the ensure!, the
\* slice and V::read, then from_u32 with ok_or_else.
FromBytes(bytes, V) ==
    IF Len(bytes) < 8 THEN FbErr("UnexpectedEof")
    ELSE IF Len(bytes) < 12 THEN FbErr("UnexpectedEof")
    ELSE IF Len(bytes) < 16 THEN FbErr("UnexpectedEof")
    ELSE
        LET identifier == LEValue(SubSeq(bytes, 1, 8))
            index_type == LEValue(SubSeq(bytes, 9, 12))
            state_len == LEValue(SubSeq(bytes, 13, 16))
            rest == DropBytes(bytes, 16)
        IN  IF ~(Len(rest) >= state_len) THEN FbErr("Index state is too short")
            ELSE
                LET read == AttrRead(V, Take(rest, state_len))
                IN  IF read.kind = "panic" THEN FbPanic
                    ELSE IF TypeFromU32(index_type) = {}
                         THEN FbErr("Unknown index type")
                    ELSE FbOk(Metadata(identifier,
                                       CHOOSE t \in TypeFromU32(index_type) : TRUE,
                                       read.state))

(***************************************************************************)
(* Finite float wrappers and the Field codec (encoding/float.rs).          *)
(* A float is its IEEE-754 fields.  An f32 is [sign, exp, mant] with a     *)
(* 23-bit mantissa; an f64 is [sign, exp, mhi, mlo] with the 52-bit        *)
(* mantissa split into its top 23 and low 29 bits.                         *)
(***************************************************************************)
F32Size == 4
F64Size == 8

FieldSize(kind) == IF kind = "F32" THEN F32Size ELSE F64Size

\* LittleEndian::read_f32 on a slice of at least 4 bytes: the first 4.
ReadF32(b) ==
    [sign |-> b[4] \div 128,
     exp |-> (b[4] % 128) * 2 + (b[3] \div 128),
     mant |-> (b[3] % 128) * 65536 + b[2] * 256 + b[1]]

\* LittleEndian::read_f64 on a slice of at least 8 bytes: the first 8.
ReadF64(b) ==
    [sign |-> b[8] \div 128,
     exp |-> (b[8] % 128) * 16 + (b[7] \div 16),
     mhi |-> (b[7] % 16) * 524288 + b[6] * 2048 + b[5] * 8 + (b[4] \div 32),
     mlo |-> (b[4] % 32) * 16777216 + b[3] * 65536 + b[2] * 256 + b[1]]

F32IsFinite(v) == v.exp # 255
F64IsFinite(v) == v.exp # 2047

\* F32::try_from / F64::try_from: Some(wrapper) exactly for a finite value.
\* A try_from that wraps every value (mutant of F32TryFrom).
F32TryFromAny(v) == {v}

F32TryFrom(v) == IF F32IsFinite(v) THEN {v} ELSE {}
F64TryFrom(v) == IF F64IsFinite(v) THEN {v} ELSE {}

RECURSIVE NormalizeSubnormal(_, _)
NormalizeSubnormal(m, e) ==
    IF m >= 8388608 THEN [mant |-> m - 8388608, exp |-> e]
    ELSE NormalizeSubnormal(2 * m, e - 1)

\* f64::from(f32): exact widening; infinities and NaNs keep sign and
\* mantissa bits, which land in the top 23 bits of the f64 mantissa.
F64FromF32(v) ==
    IF v.exp = 255 THEN [sign |-> v.sign, exp |-> 2047, mhi |-> v.mant, mlo |-> 0]
    ELSE IF v.exp = 0 /\ v.mant = 0
         THEN [sign |-> v.sign, exp |-> 0, mhi |-> 0, mlo |-> 0]
    ELSE IF v.exp = 0
         THEN LET n == NormalizeSubnormal(v.mant, 897)
              IN  [sign |-> v.sign, exp |-> n.exp, mhi |-> n.mant, mlo |-> 0]
    ELSE [sign |-> v.sign, exp |-> v.exp + 896, mhi |-> v.mant, mlo |-> 0]

NoFloat == [sign |-> 0, exp |-> 0, mhi |-> 0, mlo |-> 0]

CkOk(seg) ==
    [kind |-> "ok", error |-> "", segment |-> seg, position |-> 0, value |-> NoFloat]
CkErr(e, pos, v) ==
    [kind |-> "err", error |-> e, segment |-> 0, position |-> pos, value |-> v]
CkPanic(why) ==
    [kind |-> "panic", error |-> why, segment |-> 0, position |-> 0, value |-> NoFloat]
CkNone ==
    [kind |-> "none", error |-> "", segment |-> 0, position |-> 0, value |-> NoFloat]

\* debug_assert_eq!((to - from)?.unchecked_offset(), Self::field_size()):
\* compiled only with debug assertions.  The checked subtraction returns
\* the overflow error through `?`; unequal sizes fail the assertion.
\* "pass" lets the body of check run.
DebugAssertSize(kind, debug, from, to) ==
    IF ~debug THEN "pass"
    ELSE IF to < from THEN "overflow"
    ELSE IF to - from # FieldSize(kind) THEN "assert"
    ELSE "pass"

\* &buffer[from as usize..to as usize] followed by LittleEndian::read_f32 /
\* read_f64: the slice index panics when from > to or to > buffer.len(),
\* the read panics on a slice shorter than the float.
SliceReadable(kind, buffer, from, to) ==
    /\ from <= to
    /\ to <= Len(buffer)
    /\ to - from >= FieldSize(kind)

\* A check that reports the end of the range as the position (mutant of
\* CheckValue).
CheckValueReportsEnd(kind, buffer, from, to, latest_segment) ==
    LET slice == SubSeq(buffer, from + 1, to)
    IN  IF kind = "F32"
        THEN LET value == ReadF32(slice)
             IN  IF F32TryFrom(value) # {} THEN CkOk(latest_segment)
                 ELSE CkErr("UnsupportedFloat", to, F64FromF32(value))
        ELSE LET value == ReadF64(slice)
             IN  IF F64TryFrom(value) # {} THEN CkOk(latest_segment)
                 ELSE CkErr("UnsupportedFloat", to, value)

\* The body of check after the assertion: read the float, try_from, and the
\* result.
CheckValue(kind, buffer, from, to, latest_segment) ==
    LET slice == SubSeq(buffer, from + 1, to)
    IN  IF kind = "F32"
        THEN LET value == ReadF32(slice)
             IN  IF F32TryFrom(value) # {} THEN CkOk(latest_segment)
                 ELSE CkErr("UnsupportedFloat", from, F64FromF32(value))
        ELSE LET value == ReadF64(slice)
             IN  IF F64TryFrom(value) # {} THEN CkOk(latest_segment)
                 ELSE CkErr("UnsupportedFloat", from, value)

\* <F32 as Field>::check and <F64 as Field>::check.
FieldCheck(kind, debug, buffer, from, to, latest_segment) ==
    LET pre == DebugAssertSize(kind, debug, from, to)
    IN  IF pre = "overflow" THEN CkErr("OffsetOverflow", 0, NoFloat)
        ELSE IF pre = "assert" THEN CkPanic("debug_assert_eq")
        ELSE IF ~SliceReadable(kind, buffer, from, to) THEN CkPanic("slice")
        ELSE CheckValue(kind, buffer, from, to, latest_segment)

RECURSIVE Pow2(_)
Pow2(n) == IF n = 0 THEN 1 ELSE 2 * Pow2(n - 1)

F32Zero(sign) == [sign |-> sign, exp |-> 0, mant |-> 0]
F32Infinity(sign) == [sign |-> sign, exp |-> 255, mant |-> 0]

\* The 24-bit significand `sig` of a value below the normal f32 range,
\* shifted right by `shift` >= 1 bits and rounded to nearest, ties to even;
\* `sticky` tells that bits below the significand are set.
F32RoundSubnormal(sign, sig, shift, sticky) ==
    IF shift > 24 THEN F32Zero(sign)
    ELSE LET q == sig \div Pow2(shift)
             r == sig % Pow2(shift)
             half == Pow2(shift - 1)
             up == r > half \/ (r = half /\ (sticky \/ q % 2 = 1))
             m == IF up THEN q + 1 ELSE q
         IN  IF m = 8388608 THEN [sign |-> sign, exp |-> 1, mant |-> 0]
             ELSE [sign |-> sign, exp |-> 0, mant |-> m]

\* `number as f32`: the nearest f32, ties to even; a magnitude past the
\* largest finite f32 becomes an infinity, a NaN stays a NaN.
F32FromF64(v) ==
    IF v.exp = 2047
    THEN IF v.mhi = 0 /\ v.mlo = 0 THEN F32Infinity(v.sign)
         ELSE [sign |-> v.sign, exp |-> 255,
               mant |-> IF v.mhi >= 4194304 THEN v.mhi ELSE v.mhi + 4194304]
    ELSE IF v.exp = 0 THEN F32Zero(v.sign)
    ELSE IF v.exp <= 896
         THEN F32RoundSubnormal(v.sign, 8388608 + v.mhi, 897 - v.exp, v.mlo > 0)
    ELSE LET up == v.mlo > 268435456 \/ (v.mlo = 268435456 /\ v.mhi % 2 = 1)
             m == IF up THEN v.mhi + 1 ELSE v.mhi
             e == IF m = 8388608 THEN v.exp - 895 ELSE v.exp - 896
         IN  IF e >= 255 THEN F32Infinity(v.sign)
             ELSE [sign |-> v.sign, exp |-> e, mant |-> m % 8388608]

\* LittleEndian::write_f32 / write_f64: the bytes of the bit pattern.
WriteF32(v) ==
    <<v.mant % 256, (v.mant \div 256) % 256,
      (v.exp % 2) * 128 + v.mant \div 65536, v.sign * 128 + v.exp \div 2>>

WriteF64(v) ==
    <<v.mlo % 256, (v.mlo \div 256) % 256, (v.mlo \div 65536) % 256,
      (v.mhi % 8) * 32 + v.mlo \div 16777216, (v.mhi \div 8) % 256,
      (v.mhi \div 2048) % 256, (v.exp % 16) * 16 + v.mhi \div 524288,
      v.sign * 128 + v.exp \div 16>>

\* F32::new / F64::new: try_from(value).expect(..), which does not return
\* from None.
WrOk(v) == [kind |-> "ok", value |-> v]
WrPanic == [kind |-> "panic", value |-> NoFloat]

F32New(v) == IF F32TryFrom(v) # {} THEN WrOk(CHOOSE w \in F32TryFrom(v) : TRUE) ELSE WrPanic
F64New(v) == IF F64TryFrom(v) # {} THEN WrOk(CHOOSE w \in F64TryFrom(v) : TRUE) ELSE WrPanic

\* F32::get / F64::get
FloatGet(wrapper) == wrapper

\* Field::read: Self::new(LittleEndian::read_f32(&buffer[from..to])).
FieldRead(kind, buffer, from, to) ==
    LET slice == SubSeq(buffer, from + 1, to)
    IN  IF kind = "F32" THEN F32New(ReadF32(slice)) ELSE F64New(ReadF64(slice))

\* Field::write: the float's bytes over buffer[from..to].
FieldWrite(kind, wrapper, buffer, from, to) ==
    LET bytes == IF kind = "F32" THEN WriteF32(FloatGet(wrapper))
                 ELSE WriteF64(FloatGet(wrapper))
    IN  [i \in 1..Len(buffer) |->
            IF i > from /\ i <= from + Len(bytes) THEN bytes[i - from] ELSE buffer[i]]

\* serde_json::Value: Null, Bool, Number, String, Array, Object.  A Number
\* carries the f64 that as_f64 returns for it, which is finite.
JsonNumber(f) == [tag |-> "Number", num |-> f]
JsonOther(tag) == [tag |-> tag, num |-> NoFloat]

\* Value::as_f64: Some(number) for a Number, None for every other value.
AsF64(value) == IF value.tag = "Number" THEN {value.num} ELSE {}

JsOk(buffer) == [kind |-> "ok", error |-> "", buffer |-> buffer]
JsErr(e, buffer) == [kind |-> "err", error |-> e, buffer |-> buffer]
JsPanic(buffer) == [kind |-> "panic", error |-> "", buffer |-> buffer]
JsNone == [kind |-> "none", error |-> "", buffer |-> <<>>]

\* <F32 as ExonumJson>::deserialize_field and the F64 one:
\* as_f64().ok_or(..)?, then buffer.write(from, to, Self::new(..)).
DeserializeField(kind, value, buffer, from, to) ==
    IF AsF64(value) = {} THEN JsErr("Can't cast json as float", buffer)
    ELSE LET number == CHOOSE n \in AsF64(value) : TRUE
             made == IF kind = "F32" THEN F32New(F32FromF64(number))
                     ELSE F64New(number)
         IN  IF made.kind = "panic" THEN JsPanic(buffer)
             ELSE JsOk(FieldWrite(kind, made.value, buffer, from, to))

(***************************************************************************)
(* Index addresses and the pool's keys.                                    *)
(***************************************************************************)
Address(name) == [name |-> name, has_bytes |-> FALSE, bytes |-> <<>>]
AddressWithBytes(name, bytes) == [name |-> name, has_bytes |-> TRUE, bytes |-> bytes]

\* IndexAddress::index_name: concat_keys!(name, &[0], bytes) or
\* concat_keys!(name).
IndexName(a) ==
    IF a.has_bytes THEN a.name \o <<0>> \o a.bytes ELSE a.name

\* The key of the length counter: `()` as a key writes no bytes.
LenKey == <<>>

RECURSIVE BEBytes(_, _)
BEBytes(n, width) ==
    IF width = 0 THEN <<>> ELSE BEBytes(n \div 256, width - 1) \o <<n % 256>>

\* IndexMetadata::index_address: IndexAddress::new().append_bytes(&identifier);
\* a u64 key is its 8 bytes, most significant first.
IndexAddressOf(m) == AddressWithBytes(<<>>, BEBytes(m.identifier, 8))

(***************************************************************************)
(* The view of the pool: View::get and View::put on a key.                 *)
(***************************************************************************)
EmptyStore == [k \in {} |-> <<>>]

ViewPut(s, key, bytes) ==
    [k \in DOMAIN s \cup {key} |-> IF k = key THEN bytes ELSE s[k]]

\* IndexesPool::len: get(&()).unwrap_or_default(); a stored u64 is read from
\* the first 8 bytes of the value.
PoolLen(s) ==
    IF LenKey \in DOMAIN s THEN LEValue(Take(s[LenKey], 8)) ELSE 0

\* IndexesPool::set_len
PoolSetLen(s, len) == ViewPut(s, LenKey, LEBytes(len, 8))

\* A lookup that never finds the record (mutant of PoolIndexMetadata).
PoolIndexMetadataMiss(s, index_name, V) ==
    [kind |-> "none", value |-> NoMetadata]

\* IndexesPool::index_metadata: View::get decodes the stored bytes with
\* from_bytes and does not return from a value it cannot decode.
PoolIndexMetadata(s, index_name, V) ==
    IF index_name \notin DOMAIN s THEN [kind |-> "none", value |-> NoMetadata]
    ELSE LET r == FromBytes(s[index_name], V)
         IN  IF r.kind = "ok" THEN [kind |-> "some", value |-> r.value]
             ELSE [kind |-> "panic", value |-> NoMetadata]

\* IndexesPool::create_index_metadata: the record first, the counter second.
CreateIndexMetadata(s, index_name, index_type, V) ==
    LET len == PoolLen(s)
        metadata == Metadata(len, index_type, DefaultState(V))
        s1 == ViewPut(s, index_name, ToBytes(metadata))
    IN  [store |-> PoolSetLen(s1, len + 1), metadata |-> metadata]

(***************************************************************************)
(* IndexState: the handle with its cache.                                  *)
(***************************************************************************)
IndexStateNew(index_name, metadata) ==
    [index_name |-> index_name, cache |-> metadata]

IndexStateGet(h) == h.cache.state

\* A set that updates the cache and writes nothing (mutant of IndexStateSet).
IndexStateSetCacheOnly(s, h, state) ==
    [store |-> s, handle |-> [h EXCEPT !.cache.state = state]]

\* A set that writes the record and leaves the cache (mutant of IndexStateSet).
IndexStateSetStoreOnly(s, h, state) ==
    [store |-> ViewPut(s, h.index_name, ToBytes([h.cache EXCEPT !.state = state])),
     handle |-> h]

\* IndexState::set: the cache, then the whole record under index_name.
IndexStateSet(s, h, state) ==
    LET cache == [h.cache EXCEPT !.state = state]
    IN  [store |-> ViewPut(s, h.index_name, ToBytes(cache)),
         handle |-> [h EXCEPT !.cache = cache]]

NoHandle == IndexStateNew(<<>>, NoMetadata)

\* An assertion that accepts any type (mutant of TypesMatch).
TypesMatchAlways(stored, requested) == TRUE

\* assert_eq!(metadata.index_type, index_type, ...)
TypesMatch(stored, requested) == stored = requested

\* index_metadata(index_access, index_address, index_type): find or create,
\* then the resolved address and the handle.
IndexMetadataCall(s, index_address, index_type, V) ==
    LET index_name == IndexName(index_address)
        found == PoolIndexMetadata(s, index_name, V)
    IN  IF found.kind = "panic"
        THEN [outcome |-> "abort", why |-> "decode", created |-> FALSE, store |-> s,
              address |-> Address(<<>>), handle |-> NoHandle]
        ELSE IF found.kind = "some" /\ ~TypesMatch(found.value.index_type, index_type)
        THEN [outcome |-> "abort", why |-> "assert_eq", created |-> FALSE, store |-> s,
              address |-> Address(<<>>), handle |-> NoHandle]
        ELSE IF found.kind = "some"
        THEN [outcome |-> "ok", why |-> "", created |-> FALSE, store |-> s,
              address |-> IndexAddressOf(found.value),
              handle |-> IndexStateNew(index_name, found.value)]
        ELSE LET c == CreateIndexMetadata(s, index_name, index_type, V)
             IN  [outcome |-> "ok", why |-> "", created |-> TRUE, store |-> c.store,
                  address |-> IndexAddressOf(c.metadata),
                  handle |-> IndexStateNew(index_name, c.metadata)]

(***************************************************************************)
(* Bounds of the model and the inputs drawn.                               *)
(***************************************************************************)
MaxHandles == 2
MaxState == 1

Slots == 1..MaxHandles
SetValues == 0..MaxState

\* Addresses resolved: the empty address (IndexAddress::new()), a plain
\* name, and a name with key bytes.
PoolAddrs ==
    {Address(<<>>), Address(<<97>>), AddressWithBytes(<<97>>, <<98>>)}

PoolTypes == {"Map", "List"}

(***************************************************************************)
(* State of the pool specification.                                        *)
(***************************************************************************)
\* What a caller passed to index_metadata: the address, the index type and
\* the state type V.
Request(a, t, V) == [address |-> a, index_type |-> t, state_type |-> V]

\* A slot holds what index_metadata was asked and what it returned to the
\* caller, and for the handle the state it was constructed with (loaded) and
\* the argument of the last set made through it (wrote: empty until the
\* first set).
FreeSlot ==
    [used |-> FALSE, request |-> Request(Address(<<>>), "Unknown", "unit"),
     address |-> Address(<<>>), handle |-> NoHandle,
     loaded |-> UnitState, wrote |-> <<>>]

PoolInit ==
    /\ store = EmptyStore
    /\ slots = [i \in Slots |-> FreeSlot]
    /\ hist = [created |-> <<>>, first |-> EmptyStore, lastSet |-> EmptyStore]
    /\ last = "none"

BytesIdle ==
    /\ fbInput = <<>>
    /\ fbV = "unit"
    /\ fbResult = [kind |-> "none", error |-> "", value |-> NoMetadata]

CheckIdle ==
    /\ ckArgs = [kind |-> "F32", debug |-> FALSE, buffer |-> <<>>, from |-> 0,
                 to |-> 0, latest_segment |-> 0]
    /\ ckResult = CkNone

\* What a constructor call produced: the wrappers made (none or one) and
\* what get() returns on them.
WrNone == [op |-> "", kind |-> "none", made |-> {}, got |-> {}]

RtNone == [kind |-> "none", bytes |-> <<>>, back |-> FbErr("")]
AtNone == [kind |-> "none", buffer |-> <<>>, values |-> <<>>]

JsonIdle ==
    /\ jsArgs = [kind |-> "F32", value |-> JsonOther("Null"), buffer |-> <<>>,
                 from |-> 0, to |-> 0]
    /\ jsResult = JsNone

WrapIdle ==
    /\ wrArgs = [kind |-> "F32", value |-> NoFloat]
    /\ wrResult = WrNone

RoundIdle ==
    /\ rtArgs = NoMetadata
    /\ rtResult = RtNone

AttrIdle ==
    /\ atArgs = <<>>
    /\ atResult = AtNone

StepsIdle == callers = <<>>

Init ==
    /\ PoolInit /\ BytesIdle /\ CheckIdle
    /\ JsonIdle /\ WrapIdle /\ RoundIdle /\ AttrIdle /\ StepsIdle

FunPut(f, k, v) == [x \in DOMAIN f \cup {k} |-> IF x = k THEN v ELSE f[x]]

LowestFreeSlot ==
    CHOOSE j \in Slots : ~slots[j].used /\ \A k \in 1..(j - 1) : slots[k].used

\* A caller resolves an index: the whole of index_metadata.  The returned
\* (address, handle) pair is kept in the caller's lowest free slot; callers
\* make at most MaxHandles resolutions.
Resolve(a, t, V) ==
    /\ \E i \in Slots : ~slots[i].used
    /\ LET i == LowestFreeSlot
           key == IndexName(a)
           r == IndexMetadataCall(store, a, t, V)
       IN  /\ store' = r.store
           /\ last' = IF r.outcome = "ok" THEN "ok" ELSE r.why
           /\ IF r.outcome = "ok"
              THEN /\ slots' = [slots EXCEPT ![i] =
                                  [used |-> TRUE, request |-> Request(a, t, V),
                                   address |-> r.address,
                                   handle |-> r.handle,
                                   loaded |-> IndexStateGet(r.handle),
                                   wrote |-> <<>>]]
                   /\ hist' = [hist EXCEPT
                                 !.created = IF r.created THEN Append(@, key) ELSE @,
                                 !.first = IF key \in DOMAIN @ THEN @
                                           ELSE FunPut(@, key,
                                                       [identifier |-> r.handle.cache.identifier,
                                                        address |-> r.address])]
              ELSE UNCHANGED <<slots, hist>>
    /\ UNCHANGED <<bytesVars, checkVars, jsonVars, wrapVars, roundVars, attrVars, stepVars>>

\* A caller writes a state through the handle in slot i: IndexState::set.
SetState(i, n) ==
    /\ slots[i].used
    /\ LET h == slots[i].handle
           state == IF h.cache.state.ty = "unit" THEN UnitState ELSE U64State(n)
           r == IndexStateSet(store, h, state)
       IN  /\ store' = r.store
           /\ slots' = [slots EXCEPT ![i].handle = r.handle, ![i].wrote = <<state>>]
           /\ hist' = [hist EXCEPT !.lastSet = FunPut(@, h.index_name, state)]
           /\ last' = "ok"
    /\ UNCHANGED <<bytesVars, checkVars, jsonVars, wrapVars, roundVars, attrVars, stepVars>>

Next ==
    \/ \E a \in PoolAddrs, t \in PoolTypes, V \in StateTypes : Resolve(a, t, V)
    \/ \E i \in Slots, n \in SetValues : SetState(i, n)

Spec == Init /\ [][Next]_vars

\* The same operations over one name and all nine index types.
TypeAddrs == {Address(<<97>>)}

NextTypes ==
    \/ \E a \in TypeAddrs, t \in IndexTypes, V \in StateTypes : Resolve(a, t, V)
    \/ \E i \in Slots, n \in SetValues : SetState(i, n)

SpecTypes == Init /\ [][NextTypes]_vars

\* The same operations over names that hold a zero byte, the byte that
\* index_name puts between a name and the key bytes.
KeyAddrs ==
    {Address(<<97>>), Address(<<97, 0, 98>>), AddressWithBytes(<<97>>, <<98>>)}

NextKeys ==
    \/ \E a \in KeyAddrs, t \in PoolTypes, V \in StateTypes : Resolve(a, t, V)
    \/ \E i \in Slots, n \in SetValues : SetState(i, n)

SpecKeys == Init /\ [][NextKeys]_vars

(***************************************************************************)
(* index_metadata taken one storage access at a time: the lookup of the    *)
(* name, the read of the counter, the write of the record and the write of *)
(* the counter.  The code takes no lock; what keeps the calls of several   *)
(* callers apart is the view they are given.  SpecSteps lets the steps of  *)
(* the callers interleave over one store; SpecSerial starts a call only    *)
(* when no other call is under way.                                        *)
(***************************************************************************)
MaxCallers == 2

Callers == 1..MaxCallers

\* pc: "idle", "lookup", "read_len", "put_record", "put_len", "done",
\* "aborted"; len and metadata are the locals of create_index_metadata, and
\* metadata is what index_metadata builds its results from.
IdleCaller ==
    [pc |-> "idle", request |-> Request(Address(<<>>), "Unknown", "unit"),
     len |-> 0, metadata |-> NoMetadata]

StepsInit == callers = [c \in Callers |-> IdleCaller]

CallerName(c) == IndexName(callers[c].request.address)

StepsFrame ==
    UNCHANGED <<slots, hist, last, bytesVars, checkVars, jsonVars, wrapVars,
                roundVars, attrVars>>

\* index_metadata is entered: index_name and the pool are made.
Begin(c, a, t, V) ==
    /\ callers[c].pc = "idle"
    /\ callers' = [callers EXCEPT ![c].pc = "lookup", ![c].request = Request(a, t, V)]
    /\ UNCHANGED store
    /\ StepsFrame

\* pool.index_metadata(&index_name) and the assert_eq! on what it found.
Lookup(c) ==
    /\ callers[c].pc = "lookup"
    /\ LET req == callers[c].request
           found == PoolIndexMetadata(store, CallerName(c), req.state_type)
       IN  callers' =
             IF found.kind = "panic" THEN [callers EXCEPT ![c].pc = "aborted"]
             ELSE IF found.kind = "none" THEN [callers EXCEPT ![c].pc = "read_len"]
             ELSE IF ~TypesMatch(found.value.index_type, req.index_type)
                  THEN [callers EXCEPT ![c].pc = "aborted"]
             ELSE [callers EXCEPT ![c].pc = "done", ![c].metadata = found.value]
    /\ UNCHANGED store
    /\ StepsFrame

\* create_index_metadata: let len = self.len()
ReadLen(c) ==
    /\ callers[c].pc = "read_len"
    /\ callers' = [callers EXCEPT ![c].pc = "put_record", ![c].len = PoolLen(store)]
    /\ UNCHANGED store
    /\ StepsFrame

\* create_index_metadata: the record is built and put under index_name.
PutRecord(c) ==
    /\ callers[c].pc = "put_record"
    /\ LET req == callers[c].request
           metadata == Metadata(callers[c].len, req.index_type,
                                DefaultState(req.state_type))
       IN  /\ store' = ViewPut(store, CallerName(c), ToBytes(metadata))
           /\ callers' = [callers EXCEPT ![c].pc = "put_len", ![c].metadata = metadata]
    /\ StepsFrame

\* create_index_metadata: self.set_len(len + 1), and the return.
PutLen(c) ==
    /\ callers[c].pc = "put_len"
    /\ store' = PoolSetLen(store, callers[c].len + 1)
    /\ callers' = [callers EXCEPT ![c].pc = "done"]
    /\ StepsFrame

NoCallUnderWay ==
    \A c \in Callers : callers[c].pc \in {"idle", "done", "aborted"}

BeginAlone(c, a, t, V) == NoCallUnderWay /\ Begin(c, a, t, V)

NextSteps ==
    \/ \E c \in Callers, a \in PoolAddrs, t \in PoolTypes, V \in StateTypes :
          Begin(c, a, t, V)
    \/ \E c \in Callers : Lookup(c)
    \/ \E c \in Callers : ReadLen(c)
    \/ \E c \in Callers : PutRecord(c)
    \/ \E c \in Callers : PutLen(c)

NextSerial ==
    \/ \E c \in Callers, a \in PoolAddrs, t \in PoolTypes, V \in StateTypes :
          BeginAlone(c, a, t, V)
    \/ \E c \in Callers : Lookup(c)
    \/ \E c \in Callers : ReadLen(c)
    \/ \E c \in Callers : PutRecord(c)
    \/ \E c \in Callers : PutLen(c)

InitSteps ==
    /\ PoolInit /\ BytesIdle /\ CheckIdle
    /\ JsonIdle /\ WrapIdle /\ RoundIdle /\ AttrIdle /\ StepsInit

SpecSteps == InitSteps /\ [][NextSteps]_vars

SpecSerial == InitSteps /\ [][NextSerial]_vars

(***************************************************************************)
(* IndexMetadata::from_bytes on byte sequences.  An input is a header      *)
(* (identifier, tag, state_len), eight payload bytes and padding, cut at   *)
(* any length: headers of every length from 0 bytes, payloads shorter and  *)
(* longer than state_len, tags inside and outside the enumeration.         *)
(***************************************************************************)
MaxTag == 9
MaxStateLen == 9
MaxPadding == 2

FbIdentifiers == {0, 12}
FbTags == (0..MaxTag) \cup {255, 256, 65537}
FbStateLens == (0..MaxStateLen) \cup {65536}
FbPayload == LEBytes(16, 8)

FbFull(id, tag, state_len) ==
    LEBytes(id, 8) \o LEBytes(tag, 4) \o LEBytes(state_len, 4) \o FbPayload
        \o [i \in 1..MaxPadding |-> 7]

BytesInit ==
    /\ \E id \in FbIdentifiers, tag \in FbTags, state_len \in FbStateLens :
          \E n \in 0..(24 + MaxPadding) :
              fbInput = Take(FbFull(id, tag, state_len), n)
    /\ fbV \in StateTypes
    /\ fbResult = [kind |-> "none", error |-> "", value |-> NoMetadata]

FromBytesCall ==
    /\ fbResult.kind = "none"
    /\ fbResult' = FromBytes(fbInput, fbV)
    /\ UNCHANGED <<fbInput, fbV, poolVars, checkVars, jsonVars, wrapVars, roundVars, attrVars, stepVars>>

NextBytes == FromBytesCall

InitBytes ==
    /\ PoolInit /\ BytesInit /\ CheckIdle
    /\ JsonIdle /\ WrapIdle /\ RoundIdle /\ AttrIdle /\ StepsIdle

SpecBytes == InitBytes /\ [][NextBytes]_vars

(***************************************************************************)
(* to_bytes followed by from_bytes on the bytes it made: records of every  *)
(* index type, with a unit or a u64 state.  Identifiers and states are     *)
(* drawn below 2^31; the encoding treats every byte alike.                 *)
(***************************************************************************)
MaxRoundState == 2

RtIdentifiers == {0, 12, 256, 2147483647}
RtStates ==
    {UnitState} \cup {U64State(n) : n \in (0..MaxRoundState) \cup {16, 65535, 2147483647}}

RoundInit ==
    /\ \E id \in RtIdentifiers, t \in IndexTypes, state \in RtStates :
          rtArgs = Metadata(id, t, state)
    /\ rtResult = RtNone

\* from_bytes(to_bytes(record)) at the state type of the record.
RoundTripCall ==
    /\ rtResult.kind = "none"
    /\ LET bytes == ToBytes(rtArgs)
       IN  rtResult' = [kind |-> "done", bytes |-> bytes,
                        back |-> FromBytes(bytes, rtArgs.state.ty)]
    /\ UNCHANGED <<rtArgs, poolVars, bytesVars, checkVars, jsonVars, wrapVars,
                   attrVars, stepVars>>

NextRound == RoundTripCall

InitRound ==
    /\ PoolInit /\ BytesIdle /\ CheckIdle
    /\ JsonIdle /\ WrapIdle /\ RoundInit /\ AttrIdle /\ StepsIdle

SpecRound == InitRound /\ [][NextRound]_vars

(***************************************************************************)
(* u64 attributes written one after another into one buffer and read back  *)
(* from its start.                                                         *)
(***************************************************************************)
MaxStream == 3

AtValues == {0, 11, 12, 255, 256, 2147483647}

AttrInit ==
    /\ \E k \in 0..MaxStream : atArgs \in [1..k -> AtValues]
    /\ atResult = AtNone

\* The writes into an empty buffer, then as many reads from its start.
StreamCall ==
    /\ atResult.kind = "none"
    /\ LET buffer == StreamWrite(<<>>, atArgs)
           r == StreamRead(buffer, Len(atArgs), <<>>)
       IN  atResult' = [kind |-> r.kind, buffer |-> buffer, values |-> r.values]
    /\ UNCHANGED <<atArgs, poolVars, bytesVars, checkVars, jsonVars, wrapVars,
                   roundVars, stepVars>>

NextAttr == StreamCall

InitAttr ==
    /\ PoolInit /\ BytesIdle /\ CheckIdle
    /\ JsonIdle /\ WrapIdle /\ RoundIdle /\ AttrInit /\ StepsIdle

SpecAttr == InitAttr /\ [][NextAttr]_vars

(***************************************************************************)
(* Field::check on buffers and offsets.  A buffer is some padding followed *)
(* by the little-endian bytes of a float; offsets range over and past it.  *)
(***************************************************************************)
MaxPad == 1
MaxOffset == 10
MaxSegment == 1

\* 0.0, 1.0, the largest finite value and its negative, the largest
\* exponent below the non-finite one, +inf, -inf, quiet and signalling NaNs.
F32Patterns ==
    {<<0, 0, 0, 0>>, <<0, 0, 128, 63>>, <<255, 255, 127, 127>>,
     <<255, 255, 127, 255>>, <<0, 0, 0, 127>>, <<1, 0, 0, 0>>,
     <<0, 0, 128, 127>>, <<0, 0, 128, 255>>, <<0, 0, 192, 127>>,
     <<1, 0, 128, 127>>, <<5, 0, 192, 255>>}

F64Patterns ==
    {<<0, 0, 0, 0, 0, 0, 0, 0>>, <<0, 0, 0, 0, 0, 0, 240, 63>>,
     <<255, 255, 255, 255, 255, 255, 239, 127>>,
     <<255, 255, 255, 255, 255, 255, 239, 255>>,
     <<0, 0, 0, 0, 0, 0, 224, 127>>,
     <<0, 0, 0, 0, 0, 0, 240, 127>>, <<0, 0, 0, 0, 0, 0, 240, 255>>,
     <<0, 0, 0, 0, 0, 0, 248, 127>>, <<1, 0, 0, 0, 0, 0, 240, 127>>,
     <<0, 0, 0, 64, 0, 0, 240, 255>>}

CkBuffers ==
    {<<>>} \cup
    {[i \in 1..pad |-> 255] \o pat :
        pad \in 0..MaxPad, pat \in F32Patterns \cup F64Patterns}

CheckInit ==
    /\ ckArgs \in [kind : {"F32", "F64"}, debug : BOOLEAN, buffer : CkBuffers,
                   from : 0..MaxOffset, to : 0..MaxOffset,
                   latest_segment : 0..MaxSegment]
    /\ ckResult = CkNone

CheckCall ==
    /\ ckResult.kind = "none"
    /\ ckResult' = FieldCheck(ckArgs.kind, ckArgs.debug, ckArgs.buffer,
                              ckArgs.from, ckArgs.to, ckArgs.latest_segment)
    /\ UNCHANGED <<ckArgs, poolVars, bytesVars, jsonVars, wrapVars, roundVars, attrVars, stepVars>>

NextCheck == CheckCall

InitCheck ==
    /\ PoolInit /\ BytesIdle /\ CheckInit
    /\ JsonIdle /\ WrapIdle /\ RoundIdle /\ AttrIdle /\ StepsIdle

SpecCheck == InitCheck /\ [][NextCheck]_vars

(***************************************************************************)
(* ExonumJson::deserialize_field on JSON values.  The buffer holds the     *)
(* field's range [from, to) of exactly field_size bytes.                   *)
(***************************************************************************)
MaxJsPad == 1

\* 0.0, 1.0, -1.5, 0.1, 2^63; the largest finite f32, the f64 next above
\* it, the midpoint between it and 2^128, 2^129, the largest finite f64 and
\* its negative; 2^-149, 2^-150, the f64 next above 2^-150, and the
\* smallest f64.
JsFloats ==
    {[sign |-> 0, exp |-> 0, mhi |-> 0, mlo |-> 0],
     [sign |-> 0, exp |-> 1023, mhi |-> 0, mlo |-> 0],
     [sign |-> 1, exp |-> 1023, mhi |-> 4194304, mlo |-> 0],
     [sign |-> 0, exp |-> 1019, mhi |-> 5033164, mlo |-> 429496730],
     [sign |-> 0, exp |-> 1086, mhi |-> 0, mlo |-> 0],
     [sign |-> 0, exp |-> 1150, mhi |-> 8388607, mlo |-> 0],
     [sign |-> 0, exp |-> 1150, mhi |-> 8388607, mlo |-> 1],
     [sign |-> 0, exp |-> 1150, mhi |-> 8388607, mlo |-> 268435456],
     [sign |-> 0, exp |-> 1152, mhi |-> 0, mlo |-> 0],
     [sign |-> 0, exp |-> 2046, mhi |-> 8388607, mlo |-> 536870911],
     [sign |-> 1, exp |-> 2046, mhi |-> 8388607, mlo |-> 536870911],
     [sign |-> 0, exp |-> 874, mhi |-> 0, mlo |-> 0],
     [sign |-> 0, exp |-> 873, mhi |-> 0, mlo |-> 0],
     [sign |-> 0, exp |-> 873, mhi |-> 0, mlo |-> 1],
     [sign |-> 0, exp |-> 0, mhi |-> 0, mlo |-> 1]}

JsValues ==
    {JsonOther(tag) : tag \in {"Null", "Bool", "String", "Array", "Object"}}
        \cup {JsonNumber(f) : f \in JsFloats}

JsonInit ==
    /\ \E kind \in {"F32", "F64"}, value \in JsValues, from \in 0..MaxJsPad :
          jsArgs = [kind |-> kind, value |-> value,
                    buffer |-> [i \in 1..(FieldSize(kind) + MaxJsPad) |-> 170],
                    from |-> from, to |-> from + FieldSize(kind)]
    /\ jsResult = JsNone

DeserializeCall ==
    /\ jsResult.kind = "none"
    /\ jsResult' = DeserializeField(jsArgs.kind, jsArgs.value, jsArgs.buffer,
                                    jsArgs.from, jsArgs.to)
    /\ UNCHANGED <<jsArgs, poolVars, bytesVars, checkVars, wrapVars, roundVars,
                   attrVars, stepVars>>

NextJson == DeserializeCall

InitJson ==
    /\ PoolInit /\ BytesIdle /\ CheckIdle
    /\ JsonInit /\ WrapIdle /\ RoundIdle /\ AttrIdle /\ StepsIdle

SpecJson == InitJson /\ [][NextJson]_vars

(***************************************************************************)
(* The constructors of F32 and F64 on float values: try_from, new, and     *)
(* Field::read over the value's bytes.                                     *)
(***************************************************************************)
\* +0.0, -0.0, 1.0, -1.5, the smallest subnormal, the largest subnormal, the
\* smallest normal, the largest finite value and its negative, 2^127.
F32Finite ==
    {[sign |-> 0, exp |-> 0, mant |-> 0], [sign |-> 1, exp |-> 0, mant |-> 0],
     [sign |-> 0, exp |-> 127, mant |-> 0],
     [sign |-> 1, exp |-> 127, mant |-> 4194304],
     [sign |-> 0, exp |-> 0, mant |-> 1], [sign |-> 0, exp |-> 0, mant |-> 8388607],
     [sign |-> 0, exp |-> 1, mant |-> 0],
     [sign |-> 0, exp |-> 254, mant |-> 8388607],
     [sign |-> 1, exp |-> 254, mant |-> 8388607],
     [sign |-> 0, exp |-> 254, mant |-> 0]}

\* +Infinity, -Infinity, quiet NaNs of both signs, signalling NaNs.
F32NonFinite ==
    {[sign |-> 0, exp |-> 255, mant |-> 0], [sign |-> 1, exp |-> 255, mant |-> 0],
     [sign |-> 0, exp |-> 255, mant |-> 4194304],
     [sign |-> 1, exp |-> 255, mant |-> 4194304],
     [sign |-> 0, exp |-> 255, mant |-> 1],
     [sign |-> 1, exp |-> 255, mant |-> 8388607]}

F64Finite ==
    {[sign |-> 0, exp |-> 0, mhi |-> 0, mlo |-> 0],
     [sign |-> 1, exp |-> 0, mhi |-> 0, mlo |-> 0],
     [sign |-> 0, exp |-> 1023, mhi |-> 0, mlo |-> 0],
     [sign |-> 1, exp |-> 1023, mhi |-> 4194304, mlo |-> 0],
     [sign |-> 0, exp |-> 0, mhi |-> 0, mlo |-> 1],
     [sign |-> 0, exp |-> 0, mhi |-> 8388607, mlo |-> 536870911],
     [sign |-> 0, exp |-> 1, mhi |-> 0, mlo |-> 0],
     [sign |-> 0, exp |-> 2046, mhi |-> 8388607, mlo |-> 536870911],
     [sign |-> 1, exp |-> 2046, mhi |-> 8388607, mlo |-> 536870911],
     [sign |-> 0, exp |-> 2046, mhi |-> 0, mlo |-> 0]}

F64NonFinite ==
    {[sign |-> 0, exp |-> 2047, mhi |-> 0, mlo |-> 0],
     [sign |-> 1, exp |-> 2047, mhi |-> 0, mlo |-> 0],
     [sign |-> 0, exp |-> 2047, mhi |-> 4194304, mlo |-> 0],
     [sign |-> 1, exp |-> 2047, mhi |-> 4194304, mlo |-> 0],
     [sign |-> 0, exp |-> 2047, mhi |-> 0, mlo |-> 1],
     [sign |-> 1, exp |-> 2047, mhi |-> 8388607, mlo |-> 536870911]}

WrapInit ==
    /\ \/ \E v \in F32Finite \cup F32NonFinite : wrArgs = [kind |-> "F32", value |-> v]
       \/ \E v \in F64Finite \cup F64NonFinite : wrArgs = [kind |-> "F64", value |-> v]
    /\ wrResult = WrNone

\* try_from(value), then get() on the wrapper when there is one.
TryFromCall ==
    /\ wrResult.kind = "none"
    /\ LET made == IF wrArgs.kind = "F32" THEN F32TryFrom(wrArgs.value)
                   ELSE F64TryFrom(wrArgs.value)
       IN  wrResult' = [op |-> "try_from",
                        kind |-> IF made = {} THEN "absent" ELSE "some",
                        made |-> made,
                        got |-> {FloatGet(w) : w \in made}]
    /\ UNCHANGED <<wrArgs, poolVars, bytesVars, checkVars, jsonVars, roundVars,
                   attrVars, stepVars>>

\* new(value), then get() on the wrapper when new returned.
NewCall ==
    /\ wrResult.kind = "none"
    /\ LET r == IF wrArgs.kind = "F32" THEN F32New(wrArgs.value)
                ELSE F64New(wrArgs.value)
           made == IF r.kind = "ok" THEN {r.value} ELSE {}
       IN  wrResult' = [op |-> "new", kind |-> r.kind, made |-> made,
                        got |-> {FloatGet(w) : w \in made}]
    /\ UNCHANGED <<wrArgs, poolVars, bytesVars, checkVars, jsonVars, roundVars,
                   attrVars, stepVars>>

\* Field::read over the bytes of the value.
ReadCall ==
    /\ wrResult.kind = "none"
    /\ LET bytes == IF wrArgs.kind = "F32" THEN WriteF32(wrArgs.value)
                    ELSE WriteF64(wrArgs.value)
           r == FieldRead(wrArgs.kind, bytes, 0, FieldSize(wrArgs.kind))
           made == IF r.kind = "ok" THEN {r.value} ELSE {}
       IN  wrResult' = [op |-> "read", kind |-> r.kind, made |-> made,
                        got |-> {FloatGet(w) : w \in made}]
    /\ UNCHANGED <<wrArgs, poolVars, bytesVars, checkVars, jsonVars, roundVars,
                   attrVars, stepVars>>

NextWrap == TryFromCall \/ NewCall \/ ReadCall

InitWrap ==
    /\ PoolInit /\ BytesIdle /\ CheckIdle
    /\ JsonIdle /\ WrapInit /\ RoundIdle /\ AttrIdle /\ StepsIdle

SpecWrap == InitWrap /\ [][NextWrap]_vars

(***************************************************************************)
(* Properties of the pool and the handles.                                 *)
(***************************************************************************)
\* The record stored under a key, read without its state (the header).
HasRecord(s, k) == k \in DOMAIN s /\ FromBytes(s[k], "unit").kind = "ok"
RecordAt(s, k) == FromBytes(s[k], "unit").value
Records(s) == {k \in DOMAIN s : HasRecord(s, k)}

\* The slots filled by the step: the resolutions it completed.
NewSlots == {i \in Slots : ~slots[i].used /\ slots'[i].used}

KeyOf(slot) == slot.handle.index_name

\* What every held (address, handle) pair returned: the identifier and the
\* address of the first resolution of its name.
SameAsFirstResolution ==
    \A i \in Slots :
        slots[i].used =>
            /\ KeyOf(slots[i]) \in DOMAIN hist.first
            /\ slots[i].handle.cache.identifier = hist.first[KeyOf(slots[i])].identifier
            /\ slots[i].address = hist.first[KeyOf(slots[i])].address

\* A resolution of a name resolved before leaves the length counter alone.
LaterResolutionKeepsLen ==
    \A i \in NewSlots :
        KeyOf(slots'[i]) \in DOMAIN hist.first => PoolLen(store') = PoolLen(store)

\* C1: every completed resolution of a name returns the identifier and the
\* resolved address of the first resolution of that name, and only the first
\* resolution of a name increases the length counter.
FindOrCreateIdempotent ==
    [] SameAsFirstResolution /\ [][LaterResolutionKeepsLen]_vars

\* C1 witness: two completed resolutions of one name, which was created once.
TwoResolutionsOfOneName ==
    /\ slots[1].used /\ slots[2].used
    /\ KeyOf(slots[1]) = KeyOf(slots[2])
    /\ KeyOf(slots[1]) # LenKey
    /\ hist.created = <<KeyOf(slots[1])>>
    /\ PoolLen(store) = 1

LenEqualsRecordCount == PoolLen(store) = Cardinality(Records(store))

\* C2: in every state the length counter (0 when unset) equals the number of
\* records stored in the pool, and the counter never decreases.
LenCountsRecords ==
    [] LenEqualsRecordCount /\ [][PoolLen(store') >= PoolLen(store)]_vars

\* C3: the records created hold the identifiers 0, 1, ..., n-1 in order of
\* creation, and no two names hold the same identifier.
IdentifiersDenseAndUnique ==
    /\ \A j \in 1..Len(hist.created) :
          /\ HasRecord(store, hist.created[j])
          /\ RecordAt(store, hist.created[j]).identifier = j - 1
    /\ \A k1, k2 \in Records(store) :
          k1 # k2 => RecordAt(store, k1).identifier # RecordAt(store, k2).identifier

RecordKeepsIdentity ==
    \A k \in Records(store) :
        /\ k \in Records(store')
        /\ RecordAt(store', k).identifier = RecordAt(store, k).identifier
        /\ RecordAt(store', k).index_type = RecordAt(store, k).index_type

\* C4: once a record exists under a name, the identifier and index_type
\* stored under that name never change; only the state does.
IdentifierAndTypeFixed == [][RecordKeepsIdentity]_vars

\* The empty address has not been resolved: its name is the counter's key.
EmptyNameUnused == LenKey \notin DOMAIN hist.first

\* C2, C3 and C4 as they hold while the empty address is left alone.
LenCountsRecordsOfNamed ==
    [](EmptyNameUnused => LenEqualsRecordCount)
        /\ [][EmptyNameUnused' => PoolLen(store') >= PoolLen(store)]_vars

IdentifiersDenseOfNamed == EmptyNameUnused => IdentifiersDenseAndUnique

IdentityFixedOfNamed == [][EmptyNameUnused' => RecordKeepsIdentity]_vars

\* In the current store a resolution asking a type other than the stored one
\* aborts and writes nothing, and fails the assertion when the record decodes.
MismatchAborts ==
    \A a \in TypeAddrs \cup PoolAddrs, t \in IndexTypes, V \in StateTypes :
        (HasRecord(store, IndexName(a)) /\ RecordAt(store, IndexName(a)).index_type # t)
            => LET r == IndexMetadataCall(store, a, t, V)
               IN  /\ r.outcome = "abort"
                   /\ r.store = store
                   /\ FromBytes(store[IndexName(a)], V).kind = "ok" => r.why = "assert_eq"

AbortChangesNothing ==
    last' \in {"decode", "assert_eq"} => store' = store /\ slots' = slots /\ hist' = hist

\* C5: resolving a name whose record has another index type aborts, for
\* every pair of distinct types, and the aborted call changes nothing: no
\* record is created or rewritten and the length counter is unchanged.
TypeMismatchAborts == [] MismatchAborts /\ [][AbortChangesNothing]_vars

\* C5 witness: a resolution has failed its type assertion on a stored record.
MismatchHasAborted ==
    /\ last = "assert_eq"
    /\ \E k \in Records(store) : RecordAt(store, k).index_type = "ProofList"

\* A handle from a new resolution reads the state of the last set made on
\* its name (a state of the handle's own type).
FreshHandleSeesLastSet ==
    \A i \in NewSlots :
        LET k == KeyOf(slots'[i])
            got == IndexStateGet(slots'[i].handle)
        IN  (k \in DOMAIN hist.lastSet /\ hist.lastSet[k].ty = got.ty)
                => got = hist.lastSet[k]

UnwrittenHandleKeepsLoaded ==
    \A i \in Slots :
        (slots[i].used /\ slots[i].wrote = <<>>)
            => IndexStateGet(slots[i].handle) = slots[i].loaded

\* C6: after set(v) a handle from a new resolution of the name returns v (or
\* the value of a later set), while a handle constructed before and never
\* written still returns the value it loaded at construction.
WriteThroughNoCoherence ==
    [] UnwrittenHandleKeepsLoaded /\ [][FreshHandleSeesLastSet]_vars

\* C6 witness: the second handle was resolved after set(1) and read 1; the
\* first handle then set 0, which the second handle does not see.
StaleHandleAfterSet ==
    /\ slots[1].used /\ slots[2].used
    /\ KeyOf(slots[1]) = KeyOf(slots[2])
    /\ slots[2].loaded = U64State(1)
    /\ slots[2].wrote = <<>>
    /\ slots[1].wrote = <<U64State(0)>>
    /\ IndexStateGet(slots[2].handle) = U64State(1)
    /\ HasRecord(store, KeyOf(slots[1]))
    /\ FromBytes(store[KeyOf(slots[1])], "u64").value.state = U64State(0)

GetIsOwnLastSetOrLoaded ==
    \A i \in Slots :
        slots[i].used =>
            IndexStateGet(slots[i].handle) =
                IF slots[i].wrote = <<>> THEN slots[i].loaded ELSE slots[i].wrote[1]

\* What a handle loads at construction: the stored state, or the default
\* state when the resolution created the record.
LoadedAtConstruction ==
    \A i \in NewSlots :
        LET k == KeyOf(slots'[i])
            ty == slots'[i].loaded.ty
        IN  /\ k \in DOMAIN store => slots'[i].loaded = FromBytes(store[k], ty).value.state
            /\ k \notin DOMAIN store => slots'[i].loaded = DefaultState(ty)

\* C7: get() returns the argument of the last set made through the same
\* handle or, when the handle was never set, the state loaded at its
\* construction (the default state when the resolution created the record).
GetReturnsOwnState ==
    [] GetIsOwnLastSetOrLoaded /\ [][LoadedAtConstruction]_vars

\* C7 witness: two handles over one name, each written, hold different states.
TwoHandlesDisagree ==
    /\ slots[1].used /\ slots[2].used
    /\ KeyOf(slots[1]) = KeyOf(slots[2])
    /\ slots[1].wrote = <<U64State(1)>>
    /\ slots[2].wrote = <<U64State(0)>>
    /\ IndexStateGet(slots[1].handle) = U64State(1)
    /\ IndexStateGet(slots[2].handle) = U64State(0)

(***************************************************************************)
(* Properties of IndexMetadata::from_bytes.                                *)
(***************************************************************************)
FbHeaderComplete == Len(fbInput) >= 16
FbTag == LEValue(SubSeq(fbInput, 9, 12))
FbStateLen == LEValue(SubSeq(fbInput, 13, 16))
FbKnownTags == (1..8) \cup {255}

\* C8: from_bytes returns a record or a failure for every input and both
\* state types; a short header, a state payload shorter than the state type
\* needs and a tag outside {1..8, 255} are returned failures; tag 255 is
\* Unknown.
FromBytesNeverAborts ==
    fbResult.kind # "none" =>
        /\ fbResult.kind \in {"ok", "err"}
        /\ ~FbHeaderComplete => fbResult.kind = "err"
        /\ (FbHeaderComplete /\ fbV = "u64"
              /\ (FbStateLen < 8 \/ Len(fbInput) - 16 < 8))
                => fbResult.kind = "err"
        /\ (FbHeaderComplete /\ FbTag \notin FbKnownTags) => fbResult.kind = "err"
        /\ (fbResult.kind = "ok" /\ FbTag = 255) => fbResult.value.index_type = "Unknown"

\* What from_bytes does instead: it aborts exactly when a u64 state is asked
\* of a complete header whose state_len is below 8 and within the payload;
\* every other input gives a record or a failure as C8 says.
FromBytesAbortsOnShortU64State ==
    fbResult.kind # "none" =>
        /\ fbResult.kind = "panic"
              <=> (FbHeaderComplete /\ fbV = "u64" /\ FbStateLen < 8
                     /\ Len(fbInput) - 16 >= FbStateLen)
        /\ ~FbHeaderComplete => fbResult.kind = "err"
        /\ (FbHeaderComplete /\ Len(fbInput) - 16 < FbStateLen) => fbResult.kind = "err"
        /\ (FbHeaderComplete /\ FbTag \notin FbKnownTags) => fbResult.kind # "ok"
        /\ (fbResult.kind = "ok" /\ FbTag = 255) => fbResult.value.index_type = "Unknown"

(***************************************************************************)
(* Properties of Field::check for F32 and F64.                             *)
(***************************************************************************)
CkSize == IF ckArgs.kind = "F32" THEN 4 ELSE 8
CkInRange == ckArgs.from <= ckArgs.to /\ ckArgs.to <= Len(ckArgs.buffer)
CkExact == CkInRange /\ ckArgs.to - ckArgs.from = CkSize
CkSlice == SubSeq(ckArgs.buffer, ckArgs.from + 1, ckArgs.to)

\* C9: check returns latest_segment or an EncodingError for every buffer and
\* every pair of offsets.
CheckNeverAborts ==
    ckResult.kind # "none" => ckResult.kind \in {"ok", "err"}

\* What check does instead: with debug assertions it aborts on a range whose
\* length is not the field size or that reaches past the buffer; without
\* them on a range that is reversed, reaches past the buffer or is shorter
\* than the field.
CheckAbortsOutsideRange ==
    ckResult.kind # "none" =>
        (ckResult.kind = "panic"
            <=> IF ckArgs.debug
                THEN /\ ckArgs.from <= ckArgs.to
                     /\ ~CkExact
                ELSE ~(CkInRange /\ ckArgs.to - ckArgs.from >= CkSize))

\* The bit pattern of the slice, read from its bytes: the exponent bits all
\* set make it non-finite.
CkExponentAllOnes ==
    IF ckArgs.kind = "F32"
    THEN CkSlice[4] % 128 = 127 /\ CkSlice[3] >= 128
    ELSE CkSlice[8] % 128 = 127 /\ CkSlice[7] >= 240

\* The reported value, written back in the width of the field.
RECURSIVE Bits(_, _)
Bits(n, width) == IF width = 0 THEN <<>> ELSE Bits(n \div 2, width - 1) \o <<n % 2>>

RECURSIVE BitValue(_)
BitValue(bits) ==
    IF bits = <<>> THEN 0 ELSE 2 * BitValue(SubSeq(bits, 1, Len(bits) - 1)) + bits[Len(bits)]

ByteList(bits) ==
    [i \in 1..(Len(bits) \div 8) |->
        BitValue(SubSeq(bits, Len(bits) - 8 * i + 1, Len(bits) - 8 * i + 8))]

ValueAsFieldBytes(v) ==
    IF ckArgs.kind = "F32"
    THEN ByteList(<<v.sign>> \o Bits(255, 8) \o Bits(v.mhi, 23))
    ELSE ByteList(<<v.sign>> \o Bits(v.exp, 11) \o Bits(v.mhi, 23) \o Bits(v.mlo, 29))

CheckResultOnExactRange ==
    (ckResult.kind # "none" /\ CkExact) =>
        IF ~CkExponentAllOnes
        THEN ckResult = CkOk(ckArgs.latest_segment)
        ELSE /\ ckResult.kind = "err"
             /\ ckResult.error = "UnsupportedFloat"
             /\ ckResult.position = ckArgs.from
             /\ ckResult.value.exp = 2047
             /\ ckArgs.kind = "F32" => ckResult.value.mlo = 0
             /\ ValueAsFieldBytes(ckResult.value) = CkSlice

\* C10: on a range of exactly field_size bytes inside the buffer check
\* returns latest_segment for a finite pattern and UnsupportedFloat with
\* position = from and the decoded value (widened for F32) for NaN and the
\* infinities; the buffer is left as it was.
CheckValidatesFinite ==
    [] CheckResultOnExactRange /\ [][ckArgs'.buffer = ckArgs.buffer]_vars

\* C10 witness: a negative NaN with payload bits read at offset 1 of an F32
\* buffer was reported at position 1.
NonFiniteReported ==
    /\ ckArgs.kind = "F32"
    /\ ckArgs.from = 1 /\ ckArgs.to = 5
    /\ ckArgs.buffer = <<255, 5, 0, 192, 255>>
    /\ ckArgs.latest_segment = 1
    /\ ckResult.kind = "err"
    /\ ckResult.position = 1
    /\ ckResult.value = [sign |-> 1, exp |-> 2047, mhi |-> 4194309, mlo |-> 0]

(***************************************************************************)
(* Properties of ExonumJson::deserialize_field.                            *)
(***************************************************************************)
JsSlice == SubSeq(jsResult.buffer, jsArgs.from + 1, jsArgs.to)

\* The bytes written in the field's range are those of a finite float.
JsWroteFinite ==
    IF jsArgs.kind = "F32" THEN F32IsFinite(ReadF32(JsSlice))
    ELSE F64IsFinite(ReadF64(JsSlice))

\* C11: for every JSON value, F32 and F64 deserialize_field either write a
\* finite float into the buffer and return success, or return an error; a
\* value that is not a number is an error.
JsonNeverAborts ==
    jsResult.kind # "none" =>
        /\ jsResult.kind \in {"ok", "err"}
        /\ jsResult.kind = "ok" => JsWroteFinite
        /\ jsArgs.value.tag # "Number" => jsResult.kind = "err"

\* What deserialize_field does instead: it aborts exactly for F32 on a
\* number whose nearest f32 is an infinity; every other number is written
\* as a finite float, and the buffer outside the range is left alone.
JsonAbortsOnF32Overflow ==
    jsResult.kind # "none" =>
        /\ jsResult.kind = "panic"
              <=> /\ jsArgs.kind = "F32"
                  /\ jsArgs.value.tag = "Number"
                  /\ ~F32IsFinite(F32FromF64(jsArgs.value.num))
        /\ jsResult.kind = "err" <=> jsArgs.value.tag # "Number"
        /\ jsResult.kind = "ok" =>
              /\ JsWroteFinite
              /\ \A i \in 1..Len(jsArgs.buffer) :
                    (i <= jsArgs.from \/ i > jsArgs.to)
                        => jsResult.buffer[i] = jsArgs.buffer[i]
              /\ jsArgs.kind = "F64" => ReadF64(JsSlice) = jsArgs.value.num

(***************************************************************************)
(* Properties of the F32 and F64 constructors.                             *)
(***************************************************************************)
WrGivenFinite == wrArgs.value \in F32Finite \cup F64Finite

\* C12: try_from(v) gives a wrapper whose get() is exactly v for a finite v
\* and is absent for NaN and the infinities; new(v) gives the same wrapper
\* for a finite v and aborts otherwise; no wrapper made by try_from, new or
\* read holds a non-finite value.
WrapperIsFinite ==
    wrResult.kind # "none" =>
        /\ WrGivenFinite =>
              /\ wrResult.kind = IF wrResult.op = "try_from" THEN "some" ELSE "ok"
              /\ wrResult.made = {wrArgs.value}
              /\ wrResult.got = {wrArgs.value}
        /\ ~WrGivenFinite =>
              /\ wrResult.kind = IF wrResult.op = "try_from" THEN "absent" ELSE "panic"
              /\ wrResult.made = {}
        /\ wrResult.made \subseteq F32Finite \cup F64Finite

\* C12 witness: new has aborted on the f64 -Infinity.
NonFiniteRefused ==
    /\ wrResult.op = "new" /\ wrResult.kind = "panic"
    /\ wrArgs = [kind |-> "F64",
                 value |-> [sign |-> 1, exp |-> 2047, mhi |-> 0, mlo |-> 0]]

(***************************************************************************)
(* Properties of the binary encodings.                                     *)
(***************************************************************************)
\* The size of a state as its type gives it: 8 bytes for u64, none for ().
RtStateSize == IF rtArgs.state.ty = "u64" THEN 8 ELSE 0

\* C13: from_bytes(to_bytes(record)) succeeds and equals the record, and
\* to_bytes yields exactly 16 + state.size() bytes, for every identifier,
\* each of the nine index types and a state of type u64 or ().
MetadataRoundTrip ==
    rtResult.kind # "none" =>
        /\ rtResult.back.kind = "ok"
        /\ rtResult.back.value = rtArgs
        /\ Len(rtResult.bytes) = 16 + RtStateSize

\* C13 witness: the record {12, ProofList, 16u64} came back from its 24
\* bytes.
ProofListRecordRoundTrip ==
    /\ rtArgs = [identifier |-> 12, index_type |-> "ProofList",
                 state |-> [ty |-> "u64", val |-> 16]]
    /\ rtResult.kind = "done"
    /\ rtResult.bytes =
          <<12, 0, 0, 0, 0, 0, 0, 0, 7, 0, 0, 0, 8, 0, 0, 0, 16, 0, 0, 0, 0, 0, 0, 0>>
    /\ rtResult.back.value.state.val = 16

\* C14: k u64 values written one after another into an empty buffer make
\* exactly 8*k bytes, and k reads from the start return them in the order
\* written.
AttributeStreamRoundTrip ==
    atResult.kind # "none" =>
        /\ Len(atResult.buffer) = 8 * Len(atArgs)
        /\ atResult.kind = "ok"
        /\ atResult.values = atArgs

\* C14 witness: 11 then 12 were written into 16 bytes and read back.
ElevenThenTwelve ==
    /\ atArgs = <<11, 12>>
    /\ atResult.kind = "ok"
    /\ atResult.buffer = <<11, 0, 0, 0, 0, 0, 0, 0, 12, 0, 0, 0, 0, 0, 0, 0>>
    /\ atResult.values = <<11, 12>>

(***************************************************************************)
(* Properties of create_index_metadata, of IndexState::set and of the      *)
(* pool's keys.                                                            *)
(***************************************************************************)
\* The step ran create_index_metadata: a resolution ended by creating.
CreationStep == Len(hist'.created) = Len(hist.created) + 1

CreatedKey == hist'.created[Len(hist'.created)]

\* What create_index_metadata returns and leaves in the store, run with the
\* stored counter c = PoolLen(store).
CreateEffect ==
    \A i \in NewSlots :
        LET c == PoolLen(store)
            req == slots'[i].request
            record == Metadata(c, req.index_type, DefaultState(req.state_type))
        IN  /\ slots'[i].handle.cache = record
            /\ CreatedKey \in DOMAIN store'
            /\ store'[CreatedKey] = ToBytes(record)
            /\ FromBytes(store'[CreatedKey], req.state_type) = FbOk(record)
            /\ PoolLen(store') = c + 1
            /\ \A k \in Records(store) \ {CreatedKey} :
                  k \in DOMAIN store' /\ store'[k] = store[k]

\* C15: create_index_metadata(name, type), run with stored counter c (0 when
\* never written), returns and stores under name the record {c, type,
\* default state}, leaves the counter at c + 1 and changes no record under
\* another name.
CreateStoresRecordAndBumps == [][CreationStep => CreateEffect]_vars

\* C15 as it holds while the empty address is left alone.
CreateEffectOfNamed == [][(CreationStep /\ EmptyNameUnused') => CreateEffect]_vars

(***************************************************************************)
(* Properties of index_metadata taken step by step.                        *)
(***************************************************************************)
BetweenWrites(c) == callers[c].pc = "put_len"

\* The record is written first and the counter second: the first write
\* leaves the counter as it was read, the second changes nothing else.
RecordThenCounter ==
    \A c \in Callers :
        /\ (callers[c].pc = "put_record" /\ callers'[c].pc = "put_len")
              => /\ HasRecord(store', CallerName(c))
                 /\ PoolLen(store') = callers[c].len
        /\ (callers[c].pc = "put_len" /\ callers'[c].pc = "done")
              => /\ PoolLen(store') = callers[c].len + 1
                 /\ Records(store') = Records(store)

\* Between the writes the record under the name holds the counter's value.
RecordHoldsOldCounter ==
    \A c \in Callers :
        BetweenWrites(c) =>
            /\ HasRecord(store, CallerName(c))
            /\ RecordAt(store, CallerName(c)).identifier = PoolLen(store)

\* The counter differs from the number of records only between the writes.
CounterOffOnlyBetweenWrites ==
    PoolLen(store) # Cardinality(Records(store)) => \E c \in Callers : BetweenWrites(c)

\* C16: create_index_metadata writes the record first and the counter
\* second; between the two writes the store holds a record whose identifier
\* is the still unincremented counter, and that is the only point at which
\* the counter differs from the number of stored records.
TwoWritesInOrder ==
    /\ [][RecordThenCounter]_vars
    /\ [] RecordHoldsOldCounter
    /\ [] CounterOffOnlyBetweenWrites

\* No call under way or made is on the empty address.
StepsEmptyNameUnused ==
    \A c \in Callers : callers[c].pc # "idle" => CallerName(c) # LenKey

\* C16 as it holds while the empty address is left alone.
TwoWritesInOrderOfNamed ==
    /\ [][StepsEmptyNameUnused' => RecordThenCounter]_vars
    /\ [](StepsEmptyNameUnused => RecordHoldsOldCounter)
    /\ [](StepsEmptyNameUnused => CounterOffOnlyBetweenWrites)

Finished(c) == callers[c].pc = "done"

\* What two finished resolutions hold: one identifier for one name, two for
\* two names; and the counter when no call is left under way.
ResolutionsAgree ==
    /\ \A c, d \in Callers :
          (Finished(c) /\ Finished(d)) =>
              (CallerName(c) = CallerName(d)
                  <=> callers[c].metadata.identifier = callers[d].metadata.identifier)
    /\ (\A c \in Callers : Finished(c)) =>
          PoolLen(store) = Cardinality(Records(store))

\* C17: when the steps of two callers resolving unknown names interleave
\* over one store, no identifier ends up with two names, two callers
\* resolving one name receive one identifier, and after both finish the
\* counter equals the number of stored records.
InterleavedCallersAgree == ResolutionsAgree

\* C17 as it holds when a call starts only after the other has ended, the
\* empty address left alone.
SerialCallersAgreeOfNamed == StepsEmptyNameUnused => ResolutionsAgree

(***************************************************************************)
(* Properties of IndexState::set as a write, and of the keys of the pool.  *)
(***************************************************************************)
\* The step was a set: a call that ended well and returned no new handle.
SetStep == NewSlots = {} /\ last' = "ok"

\* The set went through the handle in slot i and wrote its record only.
SetWroteOnlyOwnRecord(i) ==
    LET key == KeyOf(slots[i])
    IN  /\ slots[i].used
        /\ key \in DOMAIN store'
        /\ store'[key] = ToBytes(slots'[i].handle.cache)
        /\ \A k \in (DOMAIN store \cup DOMAIN store') \ {key} :
              k \in DOMAIN store /\ k \in DOMAIN store' /\ store'[k] = store[k]
        /\ PoolLen(store') = PoolLen(store)
        /\ LenKey \in DOMAIN store => (LenKey \in DOMAIN store' /\ store'[LenKey] = store[LenKey])
        /\ \A j \in Slots \ {i} : slots'[j] = slots[j]

\* C18: set(v) rewrites exactly one stored entry, the record under the
\* handle's own index name; the length counter, the records under every
\* other name and the caches of every other handle are left unchanged.
SetRewritesOnlyOwnRecord ==
    [][SetStep => \E i \in Slots : SetWroteOnlyOwnRecord(i)]_vars

\* C18 as it holds while the empty address is left alone.
SetRewritesOnlyOwnRecordOfNamed ==
    [][(SetStep /\ EmptyNameUnused) => \E i \in Slots : SetWroteOnlyOwnRecord(i)]_vars

\* C19: two index addresses that differ in name or in key bytes never have
\* the same lookup key, and so never the same record or identifier.
LookupKeyInjective ==
    \A i, j \in Slots :
        (slots[i].used /\ slots[j].used
            /\ slots[i].request.address # slots[j].request.address)
            => /\ KeyOf(slots[i]) # KeyOf(slots[j])
               /\ slots[i].handle.cache.identifier # slots[j].handle.cache.identifier
               /\ slots[i].address # slots[j].address

\* C19 as it holds over names without a zero byte, the empty address left
\* alone (checked under Spec).
LookupKeyInjectiveOfNamed == EmptyNameUnused => LookupKeyInjective

\* No record is stored under the key of the length counter.
CounterKeyHoldsNoRecord == ~HasRecord(store, LenKey)

\* No creation, whose second write is the counter's, is of the counter's key.
CounterWriteSparesRecords == CreationStep => CreatedKey # LenKey

\* C20: no resolution or set ever stores a metadata record under the key
\* of the length counter, and no counter write ever overwrites a record,
\* for every index address, the empty one included.
CounterKeyNeverHoldsRecord ==
    [] CounterKeyHoldsNoRecord /\ [][CounterWriteSparesRecords]_vars

\* C20 as it holds while the empty address is left alone.
CounterKeyFreeOfNamed ==
    [](EmptyNameUnused => CounterKeyHoldsNoRecord)
        /\ [][EmptyNameUnused' => CounterWriteSparesRecords]_vars

====
